---- MODULE Spec2Model ----
(***************************************************************************)
(* hermione-screenshots-cleaner: the plugin of lib/index.js as a state     *)
(* machine.  One master hermione and one worker hermione are modelled; the *)
(* plugin is activated on each with its own options object.  The master    *)
(* registers the clean-screenshots action, the worker stubs the commands   *)
(* of a browser session and records the reference paths asked for.         *)
(*                                                                         *)
(* Paths and patterns are path strings, modelled as records                *)
(* [abs, segs]: whether the string starts with "/" and its segments.       *)
(***************************************************************************)
EXTENDS Integers, Sequences, FiniteSets, TLC

VARIABLES
    optsM,          \* plugin options object of the master (opts of module.exports)
    optsW,          \* plugin options object of the worker
    subs,           \* subs[proc][event]: number of handlers hermione.on registered
    activated,      \* activated[proc]: "no" | "yes" | "threw"
    cliActions,     \* number of actions registered through program.action
    process,        \* process.env and process.argv: the texts given for the two options
    config,         \* config[proc]: pluginConfig, what parseConfig returned to module.exports
    browserCfg,     \* hermione.config.forBrowser(id).screenshotsDir, per browser id
    tests,          \* the tests of the collection: file, pending, silentSkip, disabled
    ctx,            \* ctx[t]: hermioneCtx.usedRefPaths of test t ([set, list])
    pc,             \* position of the running action
    outcome,        \* how the last action ended
    inv,            \* number of action invocations begun
    arrays,         \* arrays[i]: the screenPatterns array handed to the handlers of invocation i
    reads,          \* AFTER_TESTS_READ events the master has handled in this process
    readsInRun,     \* ... of which handled before hermione.run() resolved
    ended,          \* tests whose TEST_END was emitted since the action began
    delivered,      \* when kept: the usedRefPaths of their contexts, in the order of delivery
    calls,          \* calls made by the current invocation to the collaborators
    logs,           \* logger.log / logger.error messages of the current invocation
    locals,         \* local variables of the action
    session,        \* the browser session of the worker
    testEnds,       \* TEST_END events the master has handled in this process
    history         \* whether this is kept (on), what each difference was computed
                    \* from, with its result, what earlier invocations were delivered,
                    \* and how much was delivered when hermione.run() resolved

vars == <<optsM, optsW, subs, activated, process, config, cliActions, browserCfg, tests, ctx, pc,
          outcome, inv, arrays, reads, readsInRun, ended, delivered, calls, logs, locals,
          session, testEnds, history>>

masterVars == <<optsM, pc, outcome, inv, arrays, reads, readsInRun, ended, delivered, calls,
                logs, locals>>

workerVars == <<optsW, session>>

(***************************************************************************)
(* Bounds of the model.                                                    *)
(***************************************************************************)
MaxInvocations == 2
MaxReads == 1
MaxAsserts == 2
MaxTestEnds == 2

(***************************************************************************)
(* Path strings.                                                           *)
(***************************************************************************)
Abs(segs) == [abs |-> TRUE, segs |-> segs]
Rel(segs) == [abs |-> FALSE, segs |-> segs]
EmptyString == Rel(<<>>)

\* process.cwd()
Cwd == Abs(<<"dir">>)

RECURSIVE NormalizeSegs(_, _)
NormalizeSegs(segs, acc) ==
    IF segs = <<>> THEN acc
    ELSE LET s == Head(segs) IN
         IF s = "." THEN NormalizeSegs(Tail(segs), acc)
         ELSE IF s = ".."
              THEN NormalizeSegs(Tail(segs),
                                 IF acc = <<>> THEN acc ELSE SubSeq(acc, 1, Len(acc) - 1))
              ELSE NormalizeSegs(Tail(segs), Append(acc, s))

\* path.resolve(a, b): b if it is absolute, else a joined with b; normalised.
\* A relative a is itself resolved against process.cwd().
PathResolve2(a, b) ==
    IF b.abs THEN Abs(NormalizeSegs(b.segs, <<>>))
    ELSE IF a.abs THEN Abs(NormalizeSegs(a.segs \o b.segs, <<>>))
         ELSE Abs(NormalizeSegs(Cwd.segs \o a.segs \o b.segs, <<>>))

\* genScreenPattern(pattern) == path.resolve(pattern, '**', '*.png')
MutGenScreenPatternNoGlob(pattern) == PathResolve2(pattern, Rel(<<"*.png">>))
genScreenPattern(pattern) == PathResolve2(pattern, Rel(<<"**", "*.png">>))

(***************************************************************************)
(* lodash helpers, on sequences.                                           *)
(***************************************************************************)
Elems(s) == {s[i] : i \in 1..Len(s)}

RECURSIVE uniq(_)
MutUniqNone(s) == s
uniq(s) ==
    IF s = <<>> THEN <<>>
    ELSE LET r == uniq(SubSeq(s, 1, Len(s) - 1))
             x == s[Len(s)]
         IN IF x \in Elems(r) THEN r ELSE Append(r, x)

RECURSIVE FilterSeq(_, _)
FilterSeq(s, keep) ==
    IF s = <<>> THEN <<>>
    ELSE IF Head(s) \in keep THEN <<Head(s)>> \o FilterSeq(Tail(s), keep)
         ELSE FilterSeq(Tail(s), keep)

\* _.difference(array, values): the elements of array not in values, in order;
\* values that is not an array (undefined) counts as empty.
MutDifferenceKeepsAll(array, values) == array
MutDifferenceUndefinedValues(array, values) ==
    IF values.set THEN FilterSeq(array, Elems(array) \ Elems(values.list)) ELSE <<>>
MutDifferenceByCount(array, values) ==
    IF values.set /\ Len(values.list) >= Len(array) THEN <<>>
    ELSE FilterSeq(array, Elems(array) \ (IF values.set THEN Elems(values.list) ELSE {}))
difference(array, values) ==
    LET excluded == IF values.set THEN Elems(values.list) ELSE {}
    IN FilterSeq(array, Elems(array) \ excluded)

\* An optional array: undefined, or a list.
Undefined == [set |-> FALSE, list |-> <<>>]
Defined(l) == [set |-> TRUE, list |-> l]

(***************************************************************************)
(* The screenshotPaths option: undefined, null, a string or an array of    *)
(* strings.                                                                *)
(***************************************************************************)
OptUndefined == [kind |-> "undefined", str |-> EmptyString, arr |-> <<>>]
OptNull == [kind |-> "null", str |-> EmptyString, arr |-> <<>>]
OptString(s) == [kind |-> "string", str |-> s, arr |-> <<>>]
OptArray(a) == [kind |-> "array", str |-> EmptyString, arr |-> a]

\* a value of the wrong type: the number 100500, alone or as the one element of an array
OptNumber == [kind |-> "number", str |-> EmptyString, arr |-> <<>>]
OptArrayOfNumbers == [kind |-> "arrayOfNumbers", str |-> EmptyString, arr |-> <<>>]

\* the number as an element of a pattern list
NumberValue == [num |-> 100500]

\* [].concat(v): the elements of an array, any other value as one element
concatValue(v) ==
    IF v.kind = "array" THEN [i \in 1..Len(v.arr) |-> OptString(v.arr[i])]
    ELSE IF v.kind = "arrayOfNumbers" THEN <<OptNumber>>
    ELSE <<v>>

Falsy(v) == v.kind \in {"undefined", "null"} \/ (v.kind = "string" /\ v.str = EmptyString)

RECURSIVE compact(_)
compact(vs) ==
    IF vs = <<>> THEN <<>>
    ELSE IF Falsy(Head(vs)) THEN compact(Tail(vs))
         ELSE <<IF Head(vs).kind = "string" THEN Head(vs).str ELSE NumberValue>>
              \o compact(Tail(vs))

\* _.compact([].concat(opts.screenshotPaths))
MutStaticPatternsDropped(opts) == <<>>
StaticPatterns(opts) == compact(concatValue(opts.screenshotPaths))

(***************************************************************************)
(* The environment: host configuration, test collection, file system.      *)
(***************************************************************************)
BrowserIds == {"yabro1", "yabro2"}
TestIds == {"t1", "t2"}
States == {"plain", "hover"}
Procs == {"master", "worker"}
Events == {"CLI", "AFTER_TESTS_READ", "TEST_END", "NEW_BROWSER"}

\* screenshotsDir of a browser: a string, or a function of the test
DirString(p) == [kind |-> "string", dir |-> p]
DirFunction == [kind |-> "function", dir |-> EmptyString]

\* the screenshotsDir function of the host configuration: (test) => `${test.file}/screens`
ScreenDirFn(test) == [abs |-> test.file.abs, segs |-> test.file.segs \o <<"screens">>]

BrowserCfgs ==
    { [yabro1 |-> DirString(Rel(<<"yabro1", "screens">>)),
       yabro2 |-> DirString(Rel(<<"yabro2", "screens">>))],
      [yabro1 |-> DirString(Rel(<<"yabro1", "screens">>)),
       yabro2 |-> DirString(Rel(<<".", "yabro2", "..", "yabro1", "screens">>))],
      [yabro1 |-> DirFunction,
       yabro2 |-> DirString(Abs(<<"abs", "yabro2">>))],
      [yabro1 |-> DirFunction, yabro2 |-> DirFunction] }

\* collection.getBrowsers()
CollectionBrowsers == <<"yabro1", "yabro2">>

File1 == Abs(<<"dir", "file1">>)
File2 == Abs(<<"dir", "file2">>)

\* silentSkip is "unset" until the plugin assigns it
Test(id, file, pending, disabled) ==
    [id |-> id, file |-> file, pending |-> pending, silentSkip |-> "unset", disabled |-> disabled]

TestLists ==
    { <<>>,
      <<Test("t1", File1, FALSE, FALSE)>>,
      <<Test("t1", File1, TRUE, FALSE), Test("t2", File2, FALSE, TRUE)>>,
      <<Test("t1", File1, FALSE, FALSE), Test("t2", File1, TRUE, FALSE)>>,
      <<Test("t1", File2, TRUE, TRUE)>> }

\* browserConfig.getScreenshotPath(test, state) of the host configuration
Plain == Abs(<<"screens", "plain.png">>)
Hover == Abs(<<"screens", "hover.png">>)
Old == Abs(<<"screens", "old.png">>)
getScreenshotPath(t, state) == IF state = "plain" THEN Plain ELSE Hover

Paths == {Plain, Hover, Old}

\* what glob.expandPaths may resolve with: nothing, or a list without duplicates
FoundLists ==
    { <<>>, <<Plain>>, <<Old, Plain>> }
FoundResults == {Undefined} \cup {Defined(l) : l \in FoundLists}

\* the byte size fs.stat reports for a file
StatSize(p) == IF p = Plain THEN 100 ELSE IF p = Hover THEN 200 ELSE 50

P1 == Abs(<<"screens", "path1", "**">>)
P2 == Abs(<<"screens", "path2", "**">>)
D1 == Abs(<<"dir", "yabro1", "screens", "**", "*.png">>)

StaticOptions ==
    { OptUndefined, OptNull, OptString(P1), OptString(EmptyString), OptArray(<<>>),
      OptArray(<<P1, P2>>), OptArray(<<P1, D1>>), OptArray(<<P2, P1, P2>>),
      OptArray(<<EmptyString, P1>>) }

EnabledOptions == {"undefined", "true", "false"}

(***************************************************************************)
(* The browser session of the worker: the keys of its prototype, what each *)
(* command does ("orig": the real command, "stub": resolves {value: {}},   *)
(* "record": the assertView replacement) and the addCommand calls made.    *)
(* A command name is [us, name]: whether it starts with an underscore, and *)
(* the rest of it.                                                         *)
(***************************************************************************)
Cmd(name) == [us |-> FALSE, name |-> name]
Priv(name) == [us |-> TRUE, name |-> name]

\* Object.keys(EventEmitter.prototype), in part
EventEmitterKeys == {Priv("events"), Cmd("on"), Cmd("emit"), Cmd("once")}

CommandNames ==
    EventEmitterKeys \cup {Cmd("addCommand"), Cmd("assertView"), Cmd("executionContext"),
                           Priv("private1"), Cmd("broCommand"), Cmd("click")}

ProtoKeySets ==
    { {Cmd("executionContext"), Cmd("addCommand")},
      {Cmd("on"), Cmd("emit"), Priv("private1"), Cmd("broCommand"),
       Cmd("executionContext"), Cmd("addCommand")},
      {Cmd("assertView"), Cmd("click"), Cmd("executionContext"), Cmd("addCommand")} }

\* called[t]: the calls of the assertView replacement while test t was executing,
\* [state, result] with how the returned promise settled; asked[t]: the calls made to
\* browserConfig.getScreenshotPath with test t, [state, threw]
NewSession(keys) ==
    [proto |-> keys,
     impl |-> [c \in CommandNames |-> "orig"],
     addCommand |-> [c \in CommandNames |-> 0],
     events |-> 0,
     called |-> [t \in TestIds |-> <<>>],
     asked |-> [t \in TestIds |-> <<>>]]

(***************************************************************************)
(* lib/config: parseConfig(options), which also reads process.env and      *)
(* process.argv.  The value of an option is taken from the command line    *)
(* if given there, else from the environment, else from the options, else  *)
(* it is the default; texts of the command line and of the environment go  *)
(* through JSON.parse.  The value is then validated.                       *)
(***************************************************************************)
\* values of other types
OptBoolean(b) == [kind |-> IF b THEN "true" ELSE "false", str |-> EmptyString, arr |-> <<>>]
\* the enabled entry of the options as a value: "undefined", "true", "false", or of
\* another type ("string": the string 'true')
EnabledValue(e) == [kind |-> e, str |-> EmptyString, arr |-> <<>>]

\* no text given for the option
NoValue == "none"

JsonTexts ==
    { "true", "false", "null", "100500", "\"/screens/path1/**\"",
      "[\"/screens/path2/**\",\"/screens/path1/**\"]", "/screens/path1/**" }

\* JSON.parse(text): the value, or a SyntaxError
JsonParse(text) ==
    CASE text = "true" -> [ok |-> TRUE, value |-> OptBoolean(TRUE)]
      [] text = "false" -> [ok |-> TRUE, value |-> OptBoolean(FALSE)]
      [] text = "null" -> [ok |-> TRUE, value |-> OptNull]
      [] text = "100500" -> [ok |-> TRUE, value |-> OptNumber]
      [] text = "\"/screens/path1/**\"" -> [ok |-> TRUE, value |-> OptString(P1)]
      [] text = "[\"/screens/path2/**\",\"/screens/path1/**\"]" ->
             [ok |-> TRUE, value |-> OptArray(<<P2, P1>>)]
      [] OTHER -> [ok |-> FALSE, value |-> OptUndefined]

\* the value of one option: command line, else environment, else options, else default
OptionValue(cli, env, option, defaultValue) ==
    IF cli # NoValue THEN JsonParse(cli)
    ELSE IF env # NoValue THEN JsonParse(env)
    ELSE IF option.kind # "undefined" THEN [ok |-> TRUE, value |-> option]
    ELSE [ok |-> TRUE, value |-> defaultValue]

\* assertBoolean('enabled')
ValidEnabled(v) == v.kind \in {"true", "false"}

\* null, or assertStringOrArrayOfStrings
MutValidScreenshotPathsAnyArray(v) == v.kind \in {"null", "string", "array", "arrayOfNumbers"}
ValidScreenshotPaths(v) == v.kind \in {"null", "string", "array"}

parseConfig(options, env, argv) ==
    LET enabled == OptionValue(argv.enabled, env.enabled, EnabledValue(options.enabled),
                               OptBoolean(TRUE))
        screenshotPaths == OptionValue(argv.screenshotPaths, env.screenshotPaths,
                                       options.screenshotPaths, OptNull)
    IN [ok |-> /\ enabled.ok /\ ValidEnabled(enabled.value)
               /\ screenshotPaths.ok /\ ValidScreenshotPaths(screenshotPaths.value),
        enabled |-> enabled.value.kind = "true",
        screenshotPaths |-> screenshotPaths.value]

(***************************************************************************)
(* Initial state: the options and the host configuration are inputs.       *)
(***************************************************************************)
NoSubs == [e \in Events |-> 0]
\* calls: the calls made to hermione.run, glob.expandPaths, fs.stat, inquirer.prompt,
\* fs.unlink and process.exit, and the number of rejections the action was handed
NoCalls == [run |-> 0, glob |-> <<>>, stat |-> <<>>, prompt |-> <<>>, unlink |-> <<>>,
            exit |-> <<>>, raised |-> 0]
\* expanded: expandPaths has resolved; diffUsed: opts.usedRefPaths as _.difference
\* was handed it; show, remove: "unset" until answered
NoLocals == [screenPatterns |-> <<>>, expanded |-> FALSE, readRefPaths |-> Undefined,
             diffUsed |-> Undefined, unused |-> <<>>, statPending |-> {}, sizes |-> <<>>, bytes |-> 0,
             show |-> "unset", remove |-> "unset", unlinkPending |-> {}]

Options(enabled, screenshotPaths) ==
    [enabled |-> enabled, screenshotPaths |-> screenshotPaths,
     runCleanScreenshots |-> FALSE, usedRefPaths |-> Undefined]

\* nothing given in the environment or on the command line
NoTexts == [enabled |-> NoValue, screenshotPaths |-> NoValue]
NoProcess == [env |-> NoTexts, argv |-> NoTexts]

\* pluginConfig before module.exports is called
NoConfig == [ok |-> FALSE, enabled |-> FALSE, screenshotPaths |-> OptUndefined]

InitWithHistory(enabledSet, staticSet, cfgSet, testSet, processSet, on) ==
    /\ history = [on |-> on, diffs |-> <<>>, all |-> <<>>, atRun |-> 0]
    /\ testEnds = 0
    /\ \E e \in enabledSet, sp \in staticSet :
          /\ optsM = Options(e, sp)
          /\ optsW = Options(e, sp)
    /\ process \in processSet
    /\ config = [p \in Procs |-> NoConfig]
    /\ subs = [p \in Procs |-> NoSubs]
    /\ activated = [p \in Procs |-> "no"]
    /\ cliActions = 0
    /\ browserCfg \in cfgSet
    /\ tests \in testSet
    /\ ctx = [t \in TestIds |-> Undefined]
    /\ pc = "idle"
    /\ outcome = "none"
    /\ inv = 0
    /\ arrays = <<>>
    /\ reads = 0
    /\ readsInRun = 0
    /\ ended = {}
    /\ delivered = <<>>
    /\ calls = NoCalls
    /\ logs = <<>>
    /\ locals = NoLocals
    /\ \E keys \in ProtoKeySets : session = NewSession(keys)

InitWithProcess(enabledSet, staticSet, cfgSet, testSet, processSet) ==
    InitWithHistory(enabledSet, staticSet, cfgSet, testSet, processSet, FALSE)

InitWith(enabledSet, staticSet, cfgSet, testSet) ==
    InitWithProcess(enabledSet, staticSet, cfgSet, testSet, {NoProcess})

(***************************************************************************)
(* Plugin activation: module.exports(hermione, opts).                      *)
(***************************************************************************)
Subscribe(proc, event) == [subs EXCEPT ![proc][event] = @ + 1]

OptsOf(proc) == IF proc = "master" THEN optsM ELSE optsW

MutActivateIgnoresEnabled(proc) ==
    /\ activated[proc] = "no"
    /\ LET pluginConfig == parseConfig(OptsOf(proc), process.env, process.argv) IN
       IF ~pluginConfig.ok
       THEN /\ activated' = [activated EXCEPT ![proc] = "threw"]
            /\ UNCHANGED <<subs, config>>
       ELSE /\ activated' = [activated EXCEPT ![proc] = "yes"]
            /\ config' = [config EXCEPT ![proc] = pluginConfig]
            /\ subs' = IF proc = "worker" THEN Subscribe(proc, "NEW_BROWSER")
                       ELSE Subscribe(proc, "CLI")
    /\ UNCHANGED <<cliActions, browserCfg, process, history, testEnds, tests, ctx, masterVars, workerVars>>

Activate(proc) ==
    /\ activated[proc] = "no"
    /\ LET pluginConfig == parseConfig(OptsOf(proc), process.env, process.argv) IN
       IF ~pluginConfig.ok
       THEN /\ activated' = [activated EXCEPT ![proc] = "threw"]
            /\ UNCHANGED <<subs, config>>
       ELSE /\ activated' = [activated EXCEPT ![proc] = "yes"]
            /\ config' = [config EXCEPT ![proc] = pluginConfig]
            /\ subs' = IF ~pluginConfig.enabled THEN subs
                       ELSE IF proc = "worker" THEN Subscribe(proc, "NEW_BROWSER")
                       ELSE Subscribe(proc, "CLI")
    /\ UNCHANGED <<cliActions, browserCfg, process, history, testEnds, tests, ctx, masterVars, workerVars>>

\* the CLI event: each handler registers the clean-screenshots command and its action
CliEvent ==
    /\ subs["master"]["CLI"] > 0
    /\ cliActions = 0
    /\ cliActions' = subs["master"]["CLI"]
    /\ UNCHANGED <<subs, activated, config, browserCfg, process, history, testEnds, tests, ctx, masterVars, workerVars>>

(***************************************************************************)
(* The clean-screenshots action.                                           *)
(***************************************************************************)
Exited == calls.exit # <<>>

Msg(level, text, count, bytes, list) ==
    [level |-> level, text |-> text, count |-> count, bytes |-> bytes, list |-> list]

\* what a rejection carries: an Error, logged by its stack, a value without a
\* stack, logged itself, or undefined or null, of which err.stack cannot be read
Nullish == {"undefined", "null"}
Errors == {"stack", "err"} \cup Nullish

\* catch (err) { logger.error(err.stack || err); process.exit(1); }
MutCatchResumes(err) ==
    /\ logs' = Append(logs, Msg("error", err, 0, 0, <<>>))
    /\ calls' = [calls EXCEPT !.exit = Append(@, 1), !.raised = @ + 1]
    /\ UNCHANGED <<pc, outcome>>

\* with undefined or null, reading err.stack throws inside the catch block: nothing
\* is logged, process.exit is not called and the promise of the action rejects
Catch(err) ==
    IF err \in Nullish
    THEN /\ calls' = [calls EXCEPT !.raised = @ + 1]
         /\ pc' = "done"
         /\ outcome' = "rejected"
         /\ UNCHANGED logs
    ELSE /\ logs' = Append(logs, Msg("error", err, 0, 0, <<>>))
         /\ calls' = [calls EXCEPT !.exit = Append(@, 1), !.raised = @ + 1]
         /\ pc' = "done"
         /\ outcome' = "failed"

\* what a difference was computed from is kept: the found list, the contexts
\* delivered since the action began, and the result
Record(h, n, found, before, unused) ==
    IF h.on
    THEN [h EXCEPT !.diffs = Append(@, [inv |-> n, found |-> found, before |-> before,
                                        unused |-> unused])]
    ELSE h

\* when the action begins again, the contexts the previous invocation was delivered
\* are kept with it
Close(h, n, all) ==
    IF h.on /\ n > 0 THEN [h EXCEPT !.all = Append(@, all), !.atRun = 0] ELSE h

\* when hermione.run() resolves, the number of contexts delivered so far is kept
Resolved(h, k) == IF h.on THEN [h EXCEPT !.atRun = k] ELSE h

\* the action up to its first await: patterns, subscriptions, flag, hermione.run()
ActionBegin ==
    /\ cliActions > 0
    /\ pc \in {"idle", "done"}
    /\ ~Exited
    /\ inv < MaxInvocations
    /\ inv' = inv + 1
    /\ arrays' = Append(arrays, StaticPatterns(optsM))
    /\ subs' = [subs EXCEPT !["master"]["AFTER_TESTS_READ"] = @ + 1,
                            !["master"]["TEST_END"] = @ + 1]
    /\ optsM' = [optsM EXCEPT !.runCleanScreenshots = TRUE]
    /\ calls' = [NoCalls EXCEPT !.run = 1]
    /\ logs' = <<>>
    /\ locals' = NoLocals
    /\ readsInRun' = 0
    /\ ended' = {}
    /\ delivered' = <<>>
    /\ ctx' = [t \in TestIds |-> Undefined]
    /\ pc' = "run"
    /\ outcome' = "none"
    /\ history' = Close(history, inv, delivered)
    /\ UNCHANGED <<activated, config, cliActions, browserCfg, process, tests, reads, testEnds, workerVars>>

\* hermione.run() resolved: uniq, then glob.expandPaths is called
RunResolve ==
    /\ pc = "run"
    /\ LET screenPatterns == uniq(arrays[inv]) IN
       /\ locals' = [locals EXCEPT !.screenPatterns = screenPatterns]
       /\ calls' = [calls EXCEPT !.glob =
                        Append(@, [patterns |-> screenPatterns, formats |-> ".png"])]
    /\ pc' = "expand"
    /\ history' = Resolved(history, Len(delivered))
    /\ UNCHANGED <<delivered, optsM, optsW, subs, activated, config, cliActions, browserCfg, process, testEnds, tests, ctx,
                   outcome, inv, arrays, reads, readsInRun, ended, logs, session>>

\* an awaited promise rejected: hermione.run(), glob.expandPaths or a prompt
AwaitReject(err) ==
    /\ pc \in {"run", "expand", "askShow", "askRemove"}
    /\ Catch(err)
    /\ UNCHANGED <<delivered, optsM, optsW, subs, activated, config, cliActions, browserCfg, process, history, testEnds, tests, ctx,
                   inv, arrays, reads, readsInRun, ended, locals, session>>

\* _.isEmpty of what expandPaths resolved with
MutIsEmptyOnlyUndefined(found) == ~found.set
IsEmpty(found) == ~found.set \/ found.list = <<>>

\* glob.expandPaths resolved: the empty checks, the difference and the call of pMap,
\* which awaits each item before it calls the mapper
ExpandResolve(found) ==
    /\ pc = "expand"
    /\ IF IsEmpty(found)
       THEN /\ logs' = Append(logs, Msg("error", "paths not found", 0, 0, locals.screenPatterns))
            /\ pc' = "done"
            /\ outcome' = "notFound"
            /\ locals' = [locals EXCEPT !.expanded = TRUE, !.readRefPaths = found]
            /\ UNCHANGED <<calls, history>>
       ELSE LET unusedRefPaths == difference(found.list, optsM.usedRefPaths) IN
            /\ history' = Record(history, inv, found.list, delivered, unusedRefPaths)
            /\ IF unusedRefPaths = <<>>
               THEN /\ logs' = Append(logs, Msg("log", "unused not found", 0, 0,
                                                locals.screenPatterns))
                    /\ pc' = "done"
                    /\ outcome' = "noUnused"
                    /\ locals' = [locals EXCEPT !.expanded = TRUE, !.readRefPaths = found,
                                                !.diffUsed = optsM.usedRefPaths]
                    /\ UNCHANGED calls
               ELSE /\ locals' = [locals EXCEPT !.expanded = TRUE,
                                                !.readRefPaths = found,
                                                !.diffUsed = optsM.usedRefPaths,
                                                !.unused = unusedRefPaths]
                    /\ pc' = "mapStat"
                    /\ UNCHANGED <<calls, logs, outcome>>
    /\ UNCHANGED <<delivered, optsM, optsW, subs, activated, config, cliActions, browserCfg, process, testEnds, tests, ctx,
                   inv, arrays, reads, readsInRun, ended, session>>

\* pMap's continuations run: the mapper calls fs.stat for every unused path
StatCalls ==
    /\ pc = "mapStat"
    /\ locals' = [locals EXCEPT !.statPending = 1..Len(locals.unused),
                                !.sizes = [i \in 1..Len(locals.unused) |-> 0]]
    /\ calls' = [calls EXCEPT !.stat = locals.unused]
    /\ pc' = "stat"
    /\ UNCHANGED <<logs, outcome>>
    /\ UNCHANGED <<delivered, optsM, optsW, subs, activated, config, cliActions, browserCfg, process, history, testEnds, tests, ctx,
                   inv, arrays, reads, readsInRun, ended, session>>

MutSumSeqKeepsLast(s) == IF s = <<>> THEN 0 ELSE s[Len(s)]

RECURSIVE SumSeq(_)
SumSeq(s) == IF s = <<>> THEN 0 ELSE Head(s) + SumSeq(Tail(s))

\* one fs.stat resolved; after the last one the sizes are summed and "show" is asked
MutStatResolveFirstSettles(i) ==
    /\ pc = "stat"
    /\ i \in locals.statPending
    /\ LET sizes == [locals.sizes EXCEPT ![i] = StatSize(locals.unused[i])]
           pending == locals.statPending \ {i}
       IN /\ locals' = [locals EXCEPT !.sizes = sizes, !.statPending = pending,
                                      !.bytes = SumSeq(sizes)]
          /\ logs' = Append(logs, Msg("log", "found unused", Len(locals.unused),
                                      SumSeq(sizes), <<>>))
          /\ calls' = [calls EXCEPT !.prompt = Append(@, "show")]
          /\ pc' = "askShow"
    /\ UNCHANGED <<delivered, optsM, optsW, subs, activated, config, cliActions, browserCfg, process, history, testEnds, tests, ctx,
                   outcome, inv, arrays, reads, readsInRun, ended, session>>

StatResolve(i) ==
    /\ pc = "stat"
    /\ i \in locals.statPending
    /\ LET sizes == [locals.sizes EXCEPT ![i] = StatSize(locals.unused[i])]
           pending == locals.statPending \ {i}
       IN IF pending # {}
          THEN /\ locals' = [locals EXCEPT !.sizes = sizes, !.statPending = pending]
               /\ UNCHANGED <<logs, calls, pc>>
          ELSE /\ locals' = [locals EXCEPT !.sizes = sizes, !.statPending = pending,
                                           !.bytes = SumSeq(sizes)]
               /\ logs' = Append(logs, Msg("log", "found unused", Len(locals.unused),
                                           SumSeq(sizes), <<>>))
               /\ calls' = [calls EXCEPT !.prompt = Append(@, "show")]
               /\ pc' = "askShow"
    /\ UNCHANGED <<delivered, optsM, optsW, subs, activated, config, cliActions, browserCfg, process, history, testEnds, tests, ctx,
                   outcome, inv, arrays, reads, readsInRun, ended, session>>

\* one fs.stat or fs.unlink rejected: pMap rejects, the action catches
MapReject(i, err) ==
    /\ \/ pc = "stat" /\ i \in locals.statPending
       \/ pc = "unlink" /\ i \in locals.unlinkPending
    /\ Catch(err)
    /\ UNCHANGED <<delivered, optsM, optsW, subs, activated, config, cliActions, browserCfg, process, history, testEnds, tests, ctx,
                   inv, arrays, reads, readsInRun, ended, locals, session>>

\* the "show" prompt answered; "remove" is asked
ShowAnswer(show) ==
    /\ pc = "askShow"
    /\ locals' = [locals EXCEPT !.show = IF show THEN "true" ELSE "false"]
    /\ logs' = IF show THEN Append(logs, Msg("log", "list", 0, 0, locals.unused)) ELSE logs
    /\ calls' = [calls EXCEPT !.prompt = Append(@, "remove")]
    /\ pc' = "askRemove"
    /\ UNCHANGED <<delivered, optsM, optsW, subs, activated, config, cliActions, browserCfg, process, history, testEnds, tests, ctx,
                   outcome, inv, arrays, reads, readsInRun, ended, session>>

\* the "remove" prompt answered: cancel, or call pMap over the unused paths
MutRemoveAnswerIgnored(remove) ==
    /\ pc = "askRemove"
    /\ locals' = [locals EXCEPT !.remove = IF remove THEN "true" ELSE "false"]
    /\ pc' = "mapUnlink"
    /\ UNCHANGED <<calls, logs, outcome>>
    /\ UNCHANGED <<delivered, optsM, optsW, subs, activated, config, cliActions, browserCfg, process, history, testEnds, tests, ctx,
                   inv, arrays, reads, readsInRun, ended, session>>

MutRemoveAnswerCancelExits(remove) ==
    /\ pc = "askRemove"
    /\ IF ~remove
       THEN /\ locals' = [locals EXCEPT !.remove = "false"]
            /\ logs' = Append(logs, Msg("log", "canceled", 0, 0, <<>>))
            /\ pc' = "done"
            /\ outcome' = "canceled"
            /\ calls' = [calls EXCEPT !.exit = Append(@, 1)]
       ELSE /\ locals' = [locals EXCEPT !.remove = "true"]
            /\ pc' = "mapUnlink"
            /\ UNCHANGED <<calls, logs, outcome>>
    /\ UNCHANGED <<delivered, optsM, optsW, subs, activated, config, cliActions, browserCfg, process, history, testEnds, tests, ctx,
                   inv, arrays, reads, readsInRun, ended, session>>

RemoveAnswer(remove) ==
    /\ pc = "askRemove"
    /\ IF ~remove
       THEN /\ locals' = [locals EXCEPT !.remove = "false"]
            /\ logs' = Append(logs, Msg("log", "canceled", 0, 0, <<>>))
            /\ pc' = "done"
            /\ outcome' = "canceled"
            /\ UNCHANGED calls
       ELSE /\ locals' = [locals EXCEPT !.remove = "true"]
            /\ pc' = "mapUnlink"
            /\ UNCHANGED <<calls, logs, outcome>>
    /\ UNCHANGED <<delivered, optsM, optsW, subs, activated, config, cliActions, browserCfg, process, history, testEnds, tests, ctx,
                   inv, arrays, reads, readsInRun, ended, session>>

\* pMap's continuations run: the mapper calls fs.unlink for every unused path
MutUnlinkCallsRecomputes ==
    /\ pc = "mapUnlink"
    /\ LET unusedRefPaths == difference(locals.readRefPaths.list, optsM.usedRefPaths) IN
       /\ locals' = [locals EXCEPT !.unlinkPending = 1..Len(unusedRefPaths)]
       /\ calls' = [calls EXCEPT !.unlink = unusedRefPaths]
       /\ IF unusedRefPaths = <<>>
          THEN /\ logs' = Append(logs, Msg("log", "succeeded", 0, 0, <<>>))
               /\ pc' = "done"
               /\ outcome' = "succeeded"
          ELSE /\ pc' = "unlink"
               /\ UNCHANGED <<logs, outcome>>
    /\ UNCHANGED <<delivered, optsM, optsW, subs, activated, config, cliActions, browserCfg, process, history, testEnds, tests, ctx,
                   inv, arrays, reads, readsInRun, ended, session>>

MutUnlinkCallsFound ==
    /\ pc = "mapUnlink"
    /\ locals' = [locals EXCEPT !.unlinkPending = 1..Len(locals.unused)]
    /\ calls' = [calls EXCEPT !.unlink = locals.readRefPaths.list]
    /\ pc' = "unlink"
    /\ UNCHANGED <<logs, outcome>>
    /\ UNCHANGED <<delivered, optsM, optsW, subs, activated, config, cliActions, browserCfg, process, history, testEnds, tests, ctx,
                   inv, arrays, reads, readsInRun, ended, session>>

UnlinkCalls ==
    /\ pc = "mapUnlink"
    /\ locals' = [locals EXCEPT !.unlinkPending = 1..Len(locals.unused)]
    /\ calls' = [calls EXCEPT !.unlink = locals.unused]
    /\ pc' = "unlink"
    /\ UNCHANGED <<logs, outcome>>
    /\ UNCHANGED <<delivered, optsM, optsW, subs, activated, config, cliActions, browserCfg, process, history, testEnds, tests, ctx,
                   inv, arrays, reads, readsInRun, ended, session>>

\* one fs.unlink resolved; after the last one success is reported
UnlinkResolve(i) ==
    /\ pc = "unlink"
    /\ i \in locals.unlinkPending
    /\ LET pending == locals.unlinkPending \ {i} IN
       /\ locals' = [locals EXCEPT !.unlinkPending = pending]
       /\ IF pending # {}
          THEN UNCHANGED <<logs, pc, outcome>>
          ELSE /\ logs' = Append(logs, Msg("log", "succeeded", 0, 0, <<>>))
               /\ pc' = "done"
               /\ outcome' = "succeeded"
    /\ UNCHANGED <<delivered, optsM, optsW, subs, activated, config, cliActions, browserCfg, process, history, testEnds, tests, ctx,
                   inv, arrays, reads, readsInRun, ended, calls, session>>

(***************************************************************************)
(* The handlers subscribeOnMasterEvents registers.                         *)
(***************************************************************************)
\* the reduce over collection.getBrowsers(): one pattern per browser with a string dir
RECURSIVE FixedPatterns(_)
FixedPatterns(browsers) ==
    IF browsers = <<>> THEN <<>>
    ELSE LET screenshotsDir == browserCfg[Head(browsers)] IN
         (IF screenshotsDir.kind = "function" THEN <<>>
          ELSE <<genScreenPattern(PathResolve2(Cwd, screenshotsDir.dir))>>)
         \o FixedPatterns(Tail(browsers))

\* collection.eachTest(cb): every test with every browser
RECURSIVE EachTest(_, _)
EachTest(ts, browsers) ==
    IF ts = <<>> THEN <<>>
    ELSE [i \in 1..Len(browsers) |-> [test |-> Head(ts), browserId |-> browsers[i]]]
         \o EachTest(Tail(ts), browsers)

\* the patterns pushed by the eachTest callback
MutFnPatternsFirstPairOnly(pairs) ==
    IF pairs = <<>> THEN <<>>
    ELSE IF browserCfg[Head(pairs).browserId].kind = "function"
         THEN <<genScreenPattern(ScreenDirFn(Head(pairs).test))>>
         ELSE <<>>

RECURSIVE FnPatterns(_)
FnPatterns(pairs) ==
    IF pairs = <<>> THEN <<>>
    ELSE (IF browserCfg[Head(pairs).browserId].kind = "function"
          THEN <<genScreenPattern(ScreenDirFn(Head(pairs).test))>>
          ELSE <<>>)
         \o FnPatterns(Tail(pairs))

\* everything one AFTER_TESTS_READ handler pushes
Pushed == FixedPatterns(CollectionBrowsers) \o FnPatterns(EachTest(tests, CollectionBrowsers))

\* if (test.pending) { test.pending = false; test.silentSkip = false; }
MutEnableTestAlways(test) ==
    [test EXCEPT !.pending = FALSE, !.silentSkip = "false"]

EnableTest(test) ==
    IF test.pending THEN [test EXCEPT !.pending = FALSE, !.silentSkip = "false"] ELSE test

\* AFTER_TESTS_READ is emitted: the handler of every invocation pushes to its own array
AfterTestsRead ==
    /\ subs["master"]["AFTER_TESTS_READ"] > 0
    /\ reads < MaxReads
    /\ reads' = reads + 1
    /\ readsInRun' = IF pc = "run" THEN readsInRun + 1 ELSE readsInRun
    /\ arrays' = [i \in 1..Len(arrays) |-> arrays[i] \o Pushed]
    /\ tests' = [i \in 1..Len(tests) |-> EnableTest(tests[i])]
    /\ UNCHANGED <<delivered, optsM, optsW, subs, activated, config, cliActions, browserCfg, process, history, testEnds, ctx, pc,
                   outcome, inv, ended, calls, logs, locals, session>>

\* one TEST_END handler: a truthy usedRefPaths of the context is concatenated
MutOnTestEndOverwrites(used, context) ==
    IF context.set THEN Defined(context.list) ELSE used

OnTestEnd(used, context) ==
    IF context.set
    THEN Defined((IF used.set THEN used.list ELSE <<>>) \o context.list)
    ELSE used

RECURSIVE Handlers(_, _, _)
Handlers(n, used, context) ==
    IF n = 0 THEN used ELSE Handlers(n - 1, OnTestEnd(used, context), context)

TestIdsOf(ts) == {ts[i].id : i \in 1..Len(ts)}

\* TEST_END is emitted for test t, whose context carries usedRefPaths = context:
\* every subscribed handler runs
TestEnd(t, context) ==
    /\ subs["master"]["TEST_END"] > 0
    /\ t \in TestIdsOf(tests)
    /\ testEnds < MaxTestEnds
    /\ testEnds' = testEnds + 1
    /\ ended' = ended \cup {t}
    /\ delivered' = IF history.on THEN Append(delivered, context) ELSE delivered
    /\ optsM' = [optsM EXCEPT !.usedRefPaths =
                     Handlers(subs["master"]["TEST_END"], @, context)]
    /\ UNCHANGED <<optsW, subs, activated, config, cliActions, browserCfg, process, history, tests, ctx, pc,
                   outcome, inv, arrays, reads, readsInRun, calls, logs, locals, session>>

(***************************************************************************)
(* The worker: subscribeOnWorkerEvents.                                    *)
(***************************************************************************)
MaxNewBrowsers == 2

\* the host hands the master's options to the worker
SyncConfig ==
    /\ optsW.runCleanScreenshots # optsM.runCleanScreenshots
    /\ optsW' = [optsW EXCEPT !.runCleanScreenshots = optsM.runCleanScreenshots]
    /\ UNCHANGED <<delivered, optsM, subs, activated, config, cliActions, browserCfg, process, history, testEnds, tests, ctx, pc, outcome,
                   inv, arrays, reads, readsInRun, ended, calls, logs, locals, session>>

reservedCommands ==
    EventEmitterKeys \cup {Cmd("addCommand"), Cmd("assertView"), Cmd("executionContext")}

\* _.reject(Object.keys(proto), reserved or starting with '_')
MutCommandsListKeepsPrivate(proto) == {c \in proto : c \notin reservedCommands}
commandsList(proto) == {c \in proto : ~(c \in reservedCommands \/ c.us)}

\* the NEW_BROWSER handler with the flag set: stub the commands, replace assertView
Install(s) ==
    LET stubbed == commandsList(s.proto) IN
    [s EXCEPT !.proto = @ \cup {Cmd("assertView")},
              !.impl = [c \in CommandNames |->
                            IF c = Cmd("assertView") THEN "record"
                            ELSE IF c \in stubbed THEN "stub" ELSE @[c]],
              !.addCommand = [c \in CommandNames |->
                            IF c = Cmd("assertView") \/ c \in stubbed THEN @[c] + 1 ELSE @[c]]]

MutNewBrowserIgnoresFlag ==
    /\ subs["worker"]["NEW_BROWSER"] > 0
    /\ session.events < MaxNewBrowsers
    /\ session' = [Install(session) EXCEPT !.events = @ + 1]
    /\ UNCHANGED <<delivered, optsM, optsW, subs, activated, config, cliActions, browserCfg, process, history, testEnds, tests, ctx, pc,
                   outcome, inv, arrays, reads, readsInRun, ended, calls, logs, locals>>

\* NEW_BROWSER is emitted for the session
NewBrowser ==
    /\ subs["worker"]["NEW_BROWSER"] > 0
    /\ session.events < MaxNewBrowsers
    /\ session' = IF ~optsW.runCleanScreenshots
                  THEN [session EXCEPT !.events = @ + 1]
                  ELSE [Install(session) EXCEPT !.events = @ + 1]
    /\ UNCHANGED <<delivered, optsM, optsW, subs, activated, config, cliActions, browserCfg, process, history, testEnds, tests, ctx, pc,
                   outcome, inv, arrays, reads, readsInRun, ended, calls, logs, locals>>

\* browser.assertView(state) while test t executes, with the replacement installed;
\* getScreenshotPath of the host configuration returns the path or throws
MutAssertViewOverwrites(t, state, throws) ==
    /\ session.impl[Cmd("assertView")] = "record"
    /\ t \in TestIdsOf(tests) \ ended
    /\ Len(session.called[t]) < MaxAsserts
    /\ session' = [session EXCEPT
           !.asked[t] = Append(@, [state |-> state, threw |-> throws]),
           !.called[t] = Append(@, [state |-> state,
                                    result |-> IF throws THEN "rejected" ELSE "resolved"])]
    /\ IF throws
       THEN UNCHANGED ctx
       ELSE LET refPath == getScreenshotPath(t, state) IN
            ctx' = [ctx EXCEPT ![t] = Defined(<<refPath>>)]
    /\ UNCHANGED <<delivered, optsM, optsW, subs, activated, config, cliActions, browserCfg, process, history, testEnds, tests, pc,
                   outcome, inv, arrays, reads, readsInRun, ended, calls, logs, locals>>

MutAssertViewSwallowsThrow(t, state, throws) ==
    /\ session.impl[Cmd("assertView")] = "record"
    /\ t \in TestIdsOf(tests) \ ended
    /\ Len(session.called[t]) < MaxAsserts
    /\ session' = [session EXCEPT
           !.asked[t] = Append(@, [state |-> state, threw |-> throws]),
           !.called[t] = Append(@, [state |-> state, result |-> "resolved"])]
    /\ IF throws
       THEN UNCHANGED ctx
       ELSE LET refPath == getScreenshotPath(t, state) IN
            ctx' = [ctx EXCEPT ![t] = Defined((IF @.set THEN @.list ELSE <<>>) \o <<refPath>>)]
    /\ UNCHANGED <<delivered, optsM, optsW, subs, activated, config, cliActions, browserCfg, process, history, testEnds, tests, pc,
                   outcome, inv, arrays, reads, readsInRun, ended, calls, logs, locals>>

AssertView(t, state, throws) ==
    /\ session.impl[Cmd("assertView")] = "record"
    /\ t \in TestIdsOf(tests) \ ended
    /\ Len(session.called[t]) < MaxAsserts
    /\ session' = [session EXCEPT
           !.asked[t] = Append(@, [state |-> state, threw |-> throws]),
           !.called[t] = Append(@, [state |-> state,
                                    result |-> IF throws THEN "rejected" ELSE "resolved"])]
    /\ IF throws
       THEN UNCHANGED ctx
       ELSE LET refPath == getScreenshotPath(t, state) IN
            ctx' = [ctx EXCEPT ![t] = Defined((IF @.set THEN @.list ELSE <<>>) \o <<refPath>>)]
    /\ UNCHANGED <<delivered, optsM, optsW, subs, activated, config, cliActions, browserCfg, process, history, testEnds, tests, pc,
                   outcome, inv, arrays, reads, readsInRun, ended, calls, logs, locals>>

(***************************************************************************)
(* Specifications.                                                         *)
(***************************************************************************)
\* The master alone: the contexts TEST_END delivers are inputs.
Contexts ==
    { Undefined, Defined(<<>>), Defined(<<Plain>>), Defined(<<Hover, Plain>>) }

Init ==
    InitWith({"undefined"}, {OptArray(<<P1, D1>>)},
             { [yabro1 |-> DirString(Rel(<<"yabro1", "screens">>)), yabro2 |-> DirFunction] },
             { <<Test("t1", File1, TRUE, FALSE)>> })

Next ==
    \/ Activate("master")
    \/ CliEvent
    \/ ActionBegin
    \/ RunResolve
    \/ \E err \in Errors : AwaitReject(err)
    \/ \E found \in FoundResults : ExpandResolve(found)
    \/ StatCalls
    \/ \E i \in DOMAIN locals.unused : StatResolve(i)
    \/ \E i \in DOMAIN locals.unused, err \in Errors : MapReject(i, err)
    \/ \E show \in BOOLEAN : ShowAnswer(show)
    \/ \E remove \in BOOLEAN : RemoveAnswer(remove)
    \/ UnlinkCalls
    \/ \E i \in DOMAIN locals.unused : UnlinkResolve(i)
    \/ AfterTestsRead
    \/ \E t \in TestIds, context \in Contexts : TestEnd(t, context)

Spec == Init /\ [][Next]_vars

\* The same, with the contexts TEST_END delivered kept.
InitReports ==
    InitWithHistory({"undefined"}, {OptArray(<<P1, D1>>)},
                    { [yabro1 |-> DirString(Rel(<<"yabro1", "screens">>)),
                       yabro2 |-> DirFunction] },
                    { <<Test("t1", File1, TRUE, FALSE)>> }, {NoProcess}, TRUE)

SpecReports == InitReports /\ [][Next]_vars

\* The pattern list handed to glob.expandPaths, over all configurations.
InitPatterns == InitWith({"undefined"}, StaticOptions, BrowserCfgs, TestLists)

NextPatterns ==
    \/ Activate("master")
    \/ CliEvent
    \/ ActionBegin
    \/ AfterTestsRead
    \/ RunResolve
    \/ ExpandResolve(Undefined)

SpecPatterns == InitPatterns /\ [][NextPatterns]_vars

\* Master and worker together while hermione.run() is pending: the contexts are those
\* the worker recorded.
InitWorker ==
    InitWith(EnabledOptions, {OptNull},
             { [yabro1 |-> DirString(Rel(<<"yabro1", "screens">>)), yabro2 |-> DirFunction] },
             { <<Test("t1", File1, TRUE, FALSE)>> })

NextWorker ==
    \/ \E proc \in Procs : Activate(proc)
    \/ CliEvent
    \/ ActionBegin
    \/ SyncConfig
    \/ NewBrowser
    \/ \E t \in TestIds, state \in States, throws \in BOOLEAN : AssertView(t, state, throws)
    \/ \E t \in TestIds : TestEnd(t, ctx[t])

SpecWorker == InitWorker /\ [][NextWorker]_vars

\* The usage tracker with two tests that run in one session: the calls of the
\* assertView replacement of the two interleave.
InitTracker ==
    /\ InitWith({"undefined"}, {OptNull},
                { [yabro1 |-> DirString(Rel(<<"yabro1", "screens">>)),
                   yabro2 |-> DirFunction] },
                { <<Test("t1", File1, TRUE, FALSE), Test("t2", File2, FALSE, FALSE)>> })
    /\ session.proto = {Cmd("assertView"), Cmd("click"), Cmd("executionContext"),
                        Cmd("addCommand")}

NextTracker ==
    \/ \E proc \in Procs : Activate(proc)
    \/ CliEvent
    \/ ActionBegin
    \/ SyncConfig
    \/ NewBrowser
    \/ \E t \in TestIds, state \in States, throws \in BOOLEAN : AssertView(t, state, throws)
    \/ \E t \in TestIds : TestEnd(t, ctx[t])

SpecTracker == InitTracker /\ [][NextTracker]_vars

\* Activation and subscriptions of both processes, over all options, with a file
\* system that holds no screenshot.
InitActivation ==
    InitWith(EnabledOptions, StaticOptions,
             { [yabro1 |-> DirString(Rel(<<"yabro1", "screens">>)), yabro2 |-> DirFunction] },
             { <<Test("t1", File1, TRUE, FALSE)>> })

NextActivation ==
    \/ \E proc \in Procs : Activate(proc)
    \/ CliEvent
    \/ ActionBegin
    \/ AfterTestsRead
    \/ RunResolve
    \/ \E err \in Errors : AwaitReject(err)
    \/ \E found \in {Undefined, Defined(<<>>)} : ExpandResolve(found)

SpecActivation == InitActivation /\ [][NextActivation]_vars

\* Configuration parsing over options of valid and invalid types, with and without
\* texts in the environment and on the command line.
ConfigEnabledOptions == {"undefined", "true", "false", "string", "null"}

ConfigStaticOptions ==
    { OptUndefined, OptNull, OptString(P1), OptArray(<<P1, P2>>), OptNumber,
      OptArrayOfNumbers }

Texts(enabled, screenshotPaths) == [enabled |-> enabled, screenshotPaths |-> screenshotPaths]

Processes ==
    { NoProcess,
      [env |-> Texts("false", NoValue), argv |-> NoTexts],
      [env |-> Texts("true", NoValue), argv |-> Texts("false", NoValue)],
      [env |-> NoTexts, argv |-> Texts("true", NoValue)],
      [env |-> Texts("100500", NoValue), argv |-> NoTexts],
      [env |-> Texts(NoValue, "\"/screens/path1/**\""), argv |-> NoTexts],
      [env |-> Texts(NoValue, "null"),
       argv |-> Texts(NoValue, "[\"/screens/path2/**\",\"/screens/path1/**\"]")],
      [env |-> Texts(NoValue, "null"), argv |-> NoTexts],
      [env |-> Texts(NoValue, "/screens/path1/**"), argv |-> NoTexts],
      [env |-> NoTexts, argv |-> Texts(NoValue, "100500")],
      [env |-> Texts(NoValue, "true"), argv |-> NoTexts] }

InitConfig ==
    InitWithProcess(ConfigEnabledOptions, ConfigStaticOptions,
                    { [yabro1 |-> DirString(Rel(<<"yabro1", "screens">>)),
                       yabro2 |-> DirFunction] },
                    { <<Test("t1", File1, TRUE, FALSE)>> },
                    Processes)

NextConfig ==
    \/ \E proc \in Procs : Activate(proc)
    \/ CliEvent
    \/ ActionBegin
    \/ RunResolve

SpecConfig == InitConfig /\ [][NextConfig]_vars

(***************************************************************************)
(* Properties.                                                             *)
(***************************************************************************)
UsedSet(used) == IF used.set THEN Elems(used.list) ELSE {}

Count(s, x) == Cardinality({i \in DOMAIN s : s[i] = x})

NoDuplicates(s) == \A i, j \in DOMAIN s : s[i] = s[j] => i = j

LastLog(level, text) ==
    /\ logs # <<>>
    /\ logs[Len(logs)].level = level
    /\ logs[Len(logs)].text = text

NoFileCalls == calls.stat = <<>> /\ calls.prompt = <<>> /\ calls.unlink = <<>>

FoundNonEmpty == locals.expanded /\ locals.readRefPaths.set /\ locals.readRefPaths.list # <<>>

\* C1: once the difference is computed from a non-empty found list, the unused list
\* holds no element of the used list it was computed from (also an undefined one),
\* holds every found path that is not used and nothing else, and is empty exactly
\* when every found path is used.
C1_UnusedIsFoundMinusUsed ==
    FoundNonEmpty =>
        LET F == Elems(locals.readRefPaths.list)
            U == UsedSet(locals.diffUsed)
            un == Elems(locals.unused)
        IN /\ un \cap U = {}
           /\ F \ U \subseteq un
           /\ un \subseteq F
           /\ (un = {}) <=> (F \subseteq U)

C1_Witness ==
    /\ FoundNonEmpty
    /\ locals.diffUsed.set
    /\ locals.unused # <<>>
    /\ Len(locals.unused) < Len(locals.readRefPaths.list)
    /\ UsedSet(locals.diffUsed) \ Elems(locals.readRefPaths.list) # {}

\* C2 as stated: once "remove" is answered true and the action has returned, every
\* unused path was unlinked exactly once, no other path and no path of the used list
\* was, and the deletion-succeeded message was reported.
C2_Original ==
    (locals.remove = "true" /\ pc = "done") =>
        /\ \A p \in Paths : Count(calls.unlink, p) = IF p \in Elems(locals.unused) THEN 1 ELSE 0
        /\ Elems(calls.unlink) \cap UsedSet(optsM.usedRefPaths) = {}
        /\ LastLog("log", "succeeded")

\* C2 amended: once "remove" is answered true, exactly one unlink call is made (as
\* soon as the mapper runs, none before) for each unused path and for no other path,
\* never for a path of the used list the
\* difference was computed from; the deletion-succeeded message is reported when
\* every unlink has resolved, and is not reported when one rejects.
C2_UnlinkOncePerUnused ==
    locals.remove = "true" =>
        /\ pc = "mapUnlink" => calls.unlink = <<>>
        /\ pc # "mapUnlink" =>
               \A p \in Paths :
                   Count(calls.unlink, p) = IF p \in Elems(locals.unused) THEN 1 ELSE 0
        /\ Elems(calls.unlink) \cap UsedSet(locals.diffUsed) = {}
        /\ (pc = "done" /\ calls.raised = 0) =>
               (locals.unlinkPending = {} /\ LastLog("log", "succeeded"))
        /\ (pc = "unlink" \/ calls.raised > 0) =>
               \A i \in DOMAIN logs : logs[i].text # "succeeded"

C2_Witness ==
    /\ locals.remove = "true"
    /\ pc = "done"
    /\ calls.raised = 0
    /\ Len(calls.unlink) >= 1
    /\ locals.diffUsed.set
    /\ Len(locals.unused) < Len(locals.readRefPaths.list)

\* C3: once "remove" is answered false, the invocation has made no unlink call,
\* whatever "show" was answered, and the cancellation message is the last report.
C3_NoUnlinkWhenRefused ==
    locals.remove = "false" =>
        /\ calls.unlink = <<>>
        /\ pc = "done"
        /\ LastLog("log", "canceled")
        /\ locals.show \in {"true", "false"}

C3_Witness ==
    /\ locals.remove = "false"
    /\ locals.show = "true"
    /\ Len(locals.unused) >= 2

\* C4: when expandPaths resolved with nothing or with an empty list, the action has
\* returned after one report, the error that no screenshot path was found by the
\* patterns, and has called neither stat nor the prompt nor unlink.
C4_NothingFound ==
    (locals.expanded /\ (~locals.readRefPaths.set \/ locals.readRefPaths.list = <<>>)) =>
        /\ pc = "done"
        /\ logs = <<Msg("error", "paths not found", 0, 0, locals.screenPatterns)>>
        /\ NoFileCalls

C4_Witness ==
    /\ locals.expanded
    /\ locals.readRefPaths = Defined(<<>>)
    /\ optsM.usedRefPaths.set

\* C5: when every path of a non-empty found list is in the used list the difference
\* was computed from, the action has returned after one report, that no unused
\* screenshot was found, and has called neither stat nor the prompt nor unlink.
C5_NothingUnused ==
    (FoundNonEmpty /\ Elems(locals.readRefPaths.list) \subseteq UsedSet(locals.diffUsed)) =>
        /\ pc = "done"
        /\ logs = <<Msg("log", "unused not found", 0, 0, locals.screenPatterns)>>
        /\ NoFileCalls

ListOfUsed == IF locals.diffUsed.set THEN locals.diffUsed.list ELSE <<>>

C5_Witness ==
    /\ FoundNonEmpty
    /\ Len(ListOfUsed) >= 2
    /\ Elems(locals.readRefPaths.list) \subseteq UsedSet(locals.diffUsed)

CaughtLogs == {i \in DOMAIN logs : logs[i].level = "error" /\ logs[i].text \in Errors}

\* C6: when a step of the action was rejected (the run, the expansion, a stat, a
\* prompt or an unlink), the action has returned, the error (its stack, or itself)
\* was logged exactly once, as the last report, and process.exit(1) was requested
\* exactly once.
C6_RaisedIsLoggedAndExits ==
    calls.raised > 0 =>
        /\ pc = "done"
        /\ calls.raised = 1
        /\ CaughtLogs = {Len(logs)}
        /\ calls.exit = <<1>>

\* C7: as long as no step was rejected no process exit is requested, and the action
\* returns with one of the four outcomes: nothing found, nothing unused, deletion
\* cancelled, deletion succeeded.
C7_NoExitWithoutError ==
    calls.raised = 0 =>
        /\ calls.exit = <<>>
        /\ pc = "done" =>
               \/ LastLog("error", "paths not found")
               \/ LastLog("log", "unused not found")
               \/ LastLog("log", "canceled")
               \/ LastLog("log", "succeeded")

C7_Witness ==
    /\ calls.raised = 0
    /\ pc = "done"
    /\ LastLog("log", "canceled")
    /\ inv = 2

\* C8: a NEW_BROWSER event handled in the worker while runCleanScreenshots is not set
\* leaves the session as it was (no addCommand call); one handled when the flag is
\* set, also when it was set after the subscription, installs the assertView
\* replacement.
C8_NoInstallWithoutFlag ==
    [][session'.events # session.events =>
          IF ~optsW.runCleanScreenshots
          THEN session' = [session EXCEPT !.events = @ + 1]
          ELSE /\ session'.impl[Cmd("assertView")] = "record"
               /\ session'.addCommand[Cmd("assertView")] =
                      session.addCommand[Cmd("assertView")] + 1]_vars

C8_Witness ==
    /\ session.events = 2
    /\ session.addCommand[Cmd("assertView")] = 1
    /\ session.impl[Cmd("assertView")] = "record"

SubscribedTo(proc) == {e \in Events : subs[proc][e] > 0}

Disabled(proc) == OptsOf(proc).enabled = "false"

\* C9: a process whose plugin is not activated or is disabled has no subscription; an
\* enabled worker is subscribed to NEW_BROWSER only; an enabled master to CLI only
\* until the action is invoked, and to CLI, AFTER_TESTS_READ and TEST_END afterwards.
C9_Subscriptions ==
    /\ \A proc \in Procs :
          (activated[proc] # "yes" \/ Disabled(proc)) => SubscribedTo(proc) = {}
    /\ (activated["worker"] = "yes" /\ ~Disabled("worker")) =>
          SubscribedTo("worker") = {"NEW_BROWSER"}
    /\ (activated["master"] = "yes" /\ ~Disabled("master")) =>
          SubscribedTo("master") =
              IF inv = 0 THEN {"CLI"} ELSE {"CLI", "AFTER_TESTS_READ", "TEST_END"}

C9_Witness ==
    /\ inv = 2
    /\ activated["worker"] = "yes"
    /\ SubscribedTo("worker") = {"NEW_BROWSER"}
    /\ SubscribedTo("master") = {"CLI", "AFTER_TESTS_READ", "TEST_END"}

\* the entries of the screenshotPaths option, in configured order
ConfiguredStatic(v) ==
    IF v.kind = "array" THEN v.arr ELSE IF v.kind = "string" THEN <<v.str>> ELSE <<>>

RECURSIVE NonEmptyStrings(_)
NonEmptyStrings(s) ==
    IF s = <<>> THEN <<>>
    ELSE (IF Head(s) = EmptyString THEN <<>> ELSE <<Head(s)>>) \o NonEmptyStrings(Tail(s))

FirstIndex(s, x) == CHOOSE i \in DOMAIN s : s[i] = x /\ \A j \in 1..(i - 1) : s[j] # x

\* r is the first-occurrence deduplication of s
IsDedupOf(r, s) ==
    /\ NoDuplicates(r)
    /\ Elems(r) = Elems(s)
    /\ \A i, j \in DOMAIN r : i < j => FirstIndex(s, r[i]) < FirstIndex(s, r[j])

\* the patterns the handler of the invocation pushed before hermione.run() resolved
DerivedInRun == IF readsInRun > 0 THEN Pushed ELSE <<>>

GlobCalledWith(static) ==
    calls.glob # <<>> =>
        /\ Len(calls.glob) = 1
        /\ calls.glob[1].formats = ".png"
        /\ IsDedupOf(calls.glob[1].patterns, static \o DerivedInRun)

\* C10 as stated: the pattern list passed to glob.expandPaths is the first-occurrence
\* deduplication of the configured screenshotPaths, then the fixed-directory
\* patterns, then the function-derived patterns, passed with formats '.png'.
C10_Original == GlobCalledWith(ConfiguredStatic(optsM.screenshotPaths))

\* C10 amended: the same, of the configured screenshotPaths that are not the empty
\* string.
C10_PatternsAreDedupOfStaticThenDerived ==
    GlobCalledWith(NonEmptyStrings(ConfiguredStatic(optsM.screenshotPaths)))

C10_Witness ==
    /\ calls.glob # <<>>
    /\ readsInRun > 0
    /\ optsM.screenshotPaths = OptArray(<<P1, D1>>)
    /\ browserCfg["yabro1"].kind = "string"
    /\ browserCfg["yabro2"].kind = "string"
    /\ Len(calls.glob[1].patterns) = 2

\* '<cwd-resolved dir>/**/*.png'
GlobUnder(dir) == Abs(PathResolve2(Cwd, dir).segs \o <<"**", "*.png">>)

StringBrowsers == {b \in BrowserIds : browserCfg[b].kind = "string"}
FunctionBrowsers == {b \in BrowserIds : browserCfg[b].kind = "function"}

\* how many times one AFTER_TESTS_READ event is to contribute pattern p: once for
\* each fixed-directory browser whose directory it is, once for each enumerated
\* (test, browser) pair of a function browser whose directory it is
Contribution(p) ==
    Cardinality({b \in StringBrowsers : GlobUnder(browserCfg[b].dir) = p})
    + Cardinality({pair \in (DOMAIN tests) \X FunctionBrowsers :
                      GlobUnder(ScreenDirFn(tests[pair[1]])) = p})

\* the part of array after that appended to before
Suffix(before, after) == SubSeq(after, Len(before) + 1, Len(after))

\* C11: each AFTER_TESTS_READ event appends to the pattern array of a handler, after
\* what it held, one pattern '<cwd-resolved dir>/**/*.png' for each browser with a
\* fixed directory, whatever the number of tests, and one pattern for each
\* enumerated (test, browser) pair of each browser whose directory is a function,
\* none without tests; nothing else is appended.
C11_DerivedPatternsPerBrowserAndPair ==
    [][reads' = reads + 1 =>
          \A i \in DOMAIN arrays :
              /\ Len(arrays'[i]) = Len(arrays[i]) + Cardinality(StringBrowsers)
                                    + Len(tests) * Cardinality(FunctionBrowsers)
              /\ SubSeq(arrays'[i], 1, Len(arrays[i])) = arrays[i]
              /\ \A p \in Elems(Suffix(arrays[i], arrays'[i])) :
                     Count(Suffix(arrays[i], arrays'[i]), p) = Contribution(p)]_vars

C11_Witness ==
    /\ reads = 1
    /\ Len(tests) = 2
    /\ tests[1].file = tests[2].file
    /\ browserCfg["yabro1"].kind = "function"
    /\ browserCfg["yabro2"].kind = "string"
    /\ Len(arrays[inv]) = Len(StaticPatterns(optsM)) + 3

ListOf(used) == IF used.set THEN used.list ELSE <<>>

\* the concatenation of the usedRefPaths lists of the contexts, in order
RECURSIVE Flatten(_)
Flatten(contexts) ==
    IF contexts = <<>> THEN <<>>
    ELSE ListOf(Head(contexts)) \o Flatten(Tail(contexts))

\* C12: after any sequence of TEST_END events of an invocation, the run-scoped
\* usedRefPaths holds the concatenation, in delivery order, of the usedRefPaths lists
\* of the delivered contexts: every entry of every list once, nothing else.
C12_UsedIsConcatenationOfDelivered ==
    ListOf(optsM.usedRefPaths) = Flatten(delivered)

\* a TEST_END event was handled in this step, and what its context carried
TestEndHandled == Len(delivered') = Len(delivered) + 1
DeliveredNow == delivered'[Len(delivered')]

\* C13: a TEST_END event whose context carries no usedRefPaths list, or an empty
\* one, leaves the run-scoped usedRefPaths as it was: uninitialised if it was
\* uninitialised.
C13_EmptyContextLeavesUsedUnchanged ==
    [][(TestEndHandled /\ ListOf(DeliveredNow) = <<>>) =>
           optsM'.usedRefPaths = optsM.usedRefPaths]_vars

Last(seq) == seq[Len(seq)]

\* the assertView replacement was called in this step while test t was executing
AssertViewCalled(t) == Len(session'.called[t]) = Len(session.called[t]) + 1

\* the paths getScreenshotPath returned to the calls made with test t, in call order
RECURSIVE ResolvedPaths(_, _)
ResolvedPaths(t, asks) ==
    IF asks = <<>> THEN <<>>
    ELSE (IF Head(asks).threw THEN <<>> ELSE <<getScreenshotPath(t, Head(asks).state)>>)
         \o ResolvedPaths(t, Tail(asks))

\* C14: each call of the assertView replacement with a state, while test t executes,
\* calls getScreenshotPath exactly once, with t and that state, and appends the path
\* it returned to the usedRefPaths of t, which then holds the paths returned for t in
\* call order; the call makes no stat, unlink, prompt or glob call and changes
\* nothing else.
C14_AssertViewRecordsResolvedPath ==
    [][\A t \in TestIds : AssertViewCalled(t) =>
          /\ Len(session'.asked[t]) = Len(session.asked[t]) + 1
          /\ \A u \in TestIds \ {t} : session'.asked[u] = session.asked[u]
          /\ Last(session'.asked[t]).state = Last(session'.called[t]).state
          /\ ~Last(session'.asked[t]).threw =>
                 ctx' = [ctx EXCEPT ![t] =
                            Defined(ListOf(@) \o <<getScreenshotPath(
                                                      t, Last(session'.called[t]).state)>>)]
          /\ ListOf(ctx'[t]) = ResolvedPaths(t, session'.asked[t])
          /\ calls' = calls
          /\ optsM' = optsM]_vars

C14_Witness ==
    /\ Len(session.called["t1"]) = 2
    /\ session.called["t1"][1] = [state |-> "hover", result |-> "resolved"]
    /\ session.called["t1"][2] = [state |-> "plain", result |-> "resolved"]
    /\ ctx["t1"] = Defined(<<Hover, Plain>>)
    /\ session.called["t2"] # <<>>

\* a NEW_BROWSER event was handled for the session while the flag was set
Installed == session.addCommand[Cmd("assertView")] > 0

\* the names that are not to be stubbed
Excluded(c) ==
    \/ c.us
    \/ c \in {Cmd("on"), Cmd("emit"), Cmd("once")}
    \/ c \in {Cmd("addCommand"), Cmd("assertView"), Cmd("executionContext")}

\* C15: once an active NEW_BROWSER event was handled, every command of the session
\* prototype that is neither an EventEmitter method, addCommand, assertView,
\* executionContext nor a name starting with an underscore resolves {value: {}};
\* none of these excluded names is ever given that stub, and apart from assertView
\* none is ever passed to addCommand.
C15_StubsAllButReserved ==
    /\ \A c \in CommandNames :
          Excluded(c) =>
              /\ session.impl[c] # "stub"
              /\ c # Cmd("assertView") => session.addCommand[c] = 0 /\ session.impl[c] = "orig"
    /\ Installed =>
          \A c \in session.proto :
              ~Excluded(c) => session.impl[c] = "stub" /\ session.addCommand[c] >= 1

C15_Witness ==
    /\ Installed
    /\ session.impl[Cmd("broCommand")] = "stub"
    /\ {Priv("private1"), Cmd("on"), Cmd("emit")} \subseteq session.proto
    /\ session.events = 2

\* C16: over all the NEW_BROWSER events handled for the session, addCommand is called
\* with the name assertView at most once, also when the prototype of the session
\* already has an assertView command.
C16_AssertViewInstalledAtMostOnce ==
    session.addCommand[Cmd("assertView")] <= 1

\* C17: when getScreenshotPath throws during a call of the assertView replacement,
\* the promise the call returned rejects, the usedRefPaths of every test is left as
\* it was, and getScreenshotPath was called once by that call: no second attempt.
C17_ResolverThrowPropagates ==
    [][\A t \in TestIds :
          (AssertViewCalled(t) /\ Last(session'.asked[t]).threw) =>
              /\ Last(session'.called[t]).result = "rejected"
              /\ ctx' = ctx
              /\ Len(session'.asked[t]) = Len(session.asked[t]) + 1
              /\ optsM' = optsM]_vars

C17_Witness ==
    /\ session.called["t1"] = << [state |-> "plain", result |-> "resolved"],
                                 [state |-> "hover", result |-> "rejected"] >>
    /\ ctx["t1"] = Defined(<<Plain>>)

\* the text given for an option: that of the command line, else that of the
\* environment
Given(name) ==
    IF process.argv[name] # NoValue THEN process.argv[name] ELSE process.env[name]

\* the option is a boolean, from the source that supplies it
EnabledIsBoolean(proc) ==
    IF Given("enabled") # NoValue THEN Given("enabled") \in {"true", "false"}
    ELSE OptsOf(proc).enabled \in {"undefined", "true", "false"}

\* the option is null, a string or an array of strings, from the source that supplies it
ScreenshotPathsIsValid(proc) ==
    IF Given("screenshotPaths") # NoValue
    THEN Given("screenshotPaths") \in
             { "null", "\"/screens/path1/**\"",
               "[\"/screens/path2/**\",\"/screens/path1/**\"]" }
    ELSE OptsOf(proc).screenshotPaths.kind \in {"undefined", "null", "string", "array"}

\* C18: in the master and in the worker alike, activation throws exactly when the
\* value of an option, from the source that supplies it, is of invalid type (enabled
\* not a boolean; screenshotPaths neither null, a string nor an array of strings; a
\* text that is not JSON), and then no subscription was made; with valid options it
\* does not throw, enabled is true when no source gives it and screenshotPaths is
\* null when no source gives it.
C18_InvalidOptionThrowsAtActivation ==
    \A proc \in Procs :
        activated[proc] # "no" =>
            /\ activated[proc] = "threw" <=>
                   ~(EnabledIsBoolean(proc) /\ ScreenshotPathsIsValid(proc))
            /\ activated[proc] = "threw" =>
                   SubscribedTo(proc) = {} /\ config[proc] = NoConfig
            /\ (activated[proc] = "yes" /\ Given("enabled") = NoValue
                    /\ OptsOf(proc).enabled = "undefined") =>
                   config[proc].enabled /\ SubscribedTo(proc) # {}
            /\ (activated[proc] = "yes" /\ Given("screenshotPaths") = NoValue
                    /\ OptsOf(proc).screenshotPaths.kind = "undefined") =>
                   config[proc].screenshotPaths = OptNull

C18_Witness ==
    /\ activated["master"] = "threw"
    /\ activated["worker"] = "threw"
    /\ optsM.enabled = "true"
    /\ optsM.screenshotPaths = OptArrayOfNumbers
    /\ process = NoProcess

\* C19: the static patterns of the pipeline are the screenshotPaths value that
\* configuration parsing accepted, from whichever source supplied it (options,
\* environment or command line): the list passed to glob.expandPaths is the
\* deduplication of that value, a string as a one-element list and null as no
\* pattern, followed by the derived patterns.
C19_StaticPatternsFromAnySource ==
    GlobCalledWith(ConfiguredStatic(config["master"].screenshotPaths))

\* the difference is computed in this step
DiffComputed == ~locals.expanded /\ locals'.expanded /\ ~IsEmpty(locals'.readRefPaths)

\* C20: every element of the used list the difference is computed from was delivered
\* by a TEST_END event of the same invocation, and every element of the usedRefPaths
\* of a test was returned by getScreenshotPath to a call of the assertView
\* replacement for that test.
C20_UsedOnlyByInterception ==
    [][/\ DiffComputed => UsedSet(locals'.diffUsed) \subseteq Elems(Flatten(delivered))
       /\ \A t \in TestIds :
              Elems(ListOf(ctx'[t])) \subseteq Elems(ResolvedPaths(t, session'.asked[t]))]_vars

\* the state labels asserted in test t by calls that resolved
AssertedStates(t) ==
    {session.called[t][i].state :
        i \in {j \in DOMAIN session.called[t] : session.called[t][j].result = "resolved"}}

\* C21: after any sequence of assertView calls in a test, the usedRefPaths of the test
\* holds exactly one entry for each distinct state label that was asserted, and no
\* other entry.
C21_OneEntryPerTestAndState ==
    \A t \in TestIds :
        /\ Len(ListOf(ctx[t])) = Cardinality(AssertedStates(t))
        /\ \A state \in AssertedStates(t) :
               Count(ListOf(ctx[t]), getScreenshotPath(t, state)) = 1


(***************************************************************************)
(* The action invoked again in the same process: the file system is left   *)
(* as it was (the removal is declined), and what each difference was       *)
(* computed from is kept.                                                  *)
(***************************************************************************)
InitTwice ==
    InitWithHistory({"undefined"}, {OptArray(<<P1, D1>>)},
                    { [yabro1 |-> DirString(Rel(<<"yabro1", "screens">>)),
                       yabro2 |-> DirFunction] },
                    { <<Test("t1", File1, TRUE, FALSE)>> }, {NoProcess}, TRUE)

\* the files the patterns match, at either invocation
FoundTwice == { Defined(<<Plain>>), Defined(<<Old, Plain>>) }

NextTwice ==
    \/ Activate("master")
    \/ CliEvent
    \/ ActionBegin
    \/ RunResolve
    \/ \E found \in FoundTwice : ExpandResolve(found)
    \/ StatCalls
    \/ \E i \in DOMAIN locals.unused : StatResolve(i)
    \/ ShowAnswer(FALSE)
    \/ RemoveAnswer(FALSE)
    \/ AfterTestsRead
    \/ \E t \in TestIds, context \in Contexts : TestEnd(t, context)

SpecTwice == InitTwice /\ [][NextTwice]_vars

\* the contexts invocation n was delivered, over the whole of it
DeliveredIn(n) == IF n = inv THEN delivered ELSE history.all[n]

\* two differences computed in this process from the same found list by invocations
\* that were delivered the same contexts, the same of them before the difference
SameRuns(a, b) ==
    /\ a.inv < b.inv
    /\ b.inv < inv \/ pc = "done"
    /\ a.found = b.found
    /\ a.before = b.before
    /\ DeliveredIn(a.inv) = DeliveredIn(b.inv)

\* C22: two invocations of the action in one process, against the same found files and
\* with the same tests reporting the same contexts, compute the same unused list.
C22_SameUnusedOnSecondInvocation ==
    \A i, j \in DOMAIN history.diffs :
        SameRuns(history.diffs[i], history.diffs[j])
            => history.diffs[i].unused = history.diffs[j].unused

\* C23: each AFTER_TESTS_READ event leaves every pending test with pending false and
\* silentSkip false, leaves a test that is not pending as it was, and never changes
\* the disabled flag of a test.
C23_PendingTestsEnabled ==
    [][reads' = reads + 1 =>
          /\ Len(tests') = Len(tests)
          /\ \A i \in DOMAIN tests :
                 /\ tests[i].pending =>
                        /\ tests'[i].pending = FALSE
                        /\ tests'[i].silentSkip = "false"
                 /\ ~tests[i].pending => tests'[i] = tests[i]
                 /\ tests'[i].disabled = tests[i].disabled
                 /\ tests'[i].id = tests[i].id /\ tests'[i].file = tests[i].file]_vars

C23_Witness ==
    /\ reads = 1
    /\ \E i \in DOMAIN tests :
           tests[i].silentSkip = "false" /\ ~tests[i].pending /\ ~tests[i].disabled
    /\ \E i \in DOMAIN tests :
           tests[i].silentSkip = "unset" /\ ~tests[i].pending /\ tests[i].disabled

\* the "found unused" reports of this invocation
FoundUnusedReports == {i \in DOMAIN logs : logs[i].text = "found unused"}

\* the sizes fs.stat reports for the paths, added up
RECURSIVE TotalSize(_)
TotalSize(paths) ==
    IF paths = <<>> THEN 0 ELSE StatSize(Head(paths)) + TotalSize(Tail(paths))

\* every fs.stat call of this invocation has resolved
StatsResolved == calls.stat # <<>> /\ locals.statPending = {}

\* C24: when the unused list is not empty, fs.stat is called (as soon as the mapper
\* runs) exactly once for each of its paths and for nothing else; once every call has resolved, in whatever order,
\* one report is made, whose count is the number of unused paths and whose total is
\* the sum of the sizes fs.stat gave.
C24_StatOncePerUnusedAndReport ==
    /\ (locals.unused # <<>> /\ pc # "mapStat") =>
           /\ Elems(calls.stat) = Elems(locals.unused)
           /\ \A p \in Elems(locals.unused) : Count(calls.stat, p) = 1
    /\ (locals.unused = <<>> \/ pc = "mapStat") => calls.stat = <<>>
    /\ \A i \in FoundUnusedReports :
           /\ logs[i].count = Len(locals.unused)
           /\ logs[i].bytes = TotalSize(locals.unused)
    /\ Cardinality(FoundUnusedReports) = IF StatsResolved THEN 1 ELSE 0

C24_Witness ==
    /\ pc = "askShow"
    /\ locals.unused = <<Old, Plain>>
    /\ \E i \in FoundUnusedReports : logs[i].count = 2 /\ logs[i].bytes = 150

\* the place of a step in the action's body
StepOrder(step) ==
    CASE step = "idle" -> 0
      [] step = "run" -> 1
      [] step = "expand" -> 2
      [] step = "mapStat" -> 3
      [] step = "stat" -> 4
      [] step = "askShow" -> 5
      [] step = "askRemove" -> 6
      [] step = "mapUnlink" -> 7
      [] step = "unlink" -> 8
      [] step = "done" -> 9

\* what the calls made so far in an invocation tell about the steps before them
CallsInOrder ==
    /\ inv > 0 =>
           /\ calls.run = 1
           /\ optsM.runCleanScreenshots
           /\ subs["master"]["AFTER_TESTS_READ"] > 0 /\ subs["master"]["TEST_END"] > 0
    /\ calls.glob # <<>> => StepOrder(pc) >= StepOrder("expand")
    /\ StepOrder(pc) \in 2..8 => Len(calls.glob) = 1
    /\ Len(calls.glob) <= 1
    /\ pc = "run" => calls.glob = <<>>
    /\ StepOrder(pc) <= StepOrder("mapStat") => calls.stat = <<>>
    /\ calls.stat # <<>> => locals.expanded /\ calls.stat = locals.unused
    /\ calls.prompt \in {<<>>, <<"show">>, <<"show", "remove">>}
    /\ calls.prompt # <<>> => calls.stat # <<>> /\ locals.statPending = {}
    /\ Len(calls.prompt) = 2 <=> locals.show # "unset"
    /\ StepOrder(pc) <= StepOrder("mapUnlink") => calls.unlink = <<>>
    /\ calls.unlink # <<>> => calls.prompt = <<"show", "remove">> /\ locals.remove = "true"

\* C25: within one invocation the action only moves forward through run, expand,
\* the stat calls, stat, "show", "remove", the unlink calls, unlink, one step at a
\* time or out of the pipeline; an
\* invocation begins by subscribing the handlers, setting runCleanScreenshots and
\* calling hermione.run() once; expandPaths is called only after the run resolved,
\* fs.stat only after the expansion, the prompts only after every stat resolved,
\* "show" before "remove", and fs.unlink only after "remove" was answered with yes.
C25_StepsInLinearOrder ==
    [][/\ CallsInOrder'
       /\ inv' = inv /\ pc' # pc =>
              /\ StepOrder(pc') > StepOrder(pc)
              /\ pc' = "done" \/ StepOrder(pc') = StepOrder(pc) + 1
       /\ inv' # inv =>
              /\ inv' = inv + 1
              /\ pc \in {"idle", "done"} /\ pc' = "run"
              /\ calls'.run = 1 /\ calls'.glob = <<>>]_vars

C25_Witness ==
    /\ outcome = "succeeded"
    /\ calls.run = 1
    /\ Len(calls.glob) = 1
    /\ Len(calls.stat) = 2
    /\ calls.prompt = <<"show", "remove">>
    /\ Len(calls.unlink) = 2

\* no "succeeded" report among the reports
NoSucceeded(reports) == \A i \in DOMAIN reports : reports[i].text # "succeeded"

\* C26: a step that is rejected adds nothing but the error report and the exit
\* request (both when the catch block completes, neither when it throws); when the
\* run or the expansion was rejected no fs.stat, prompt or fs.unlink call was made,
\* when a stat or a prompt was rejected no fs.unlink call was made, when an unlink
\* was rejected no deletion-succeeded report was made; and the invocation makes no
\* call and no report after the rejection.
C26_FailFast ==
    [][/\ (inv' = inv /\ calls'.raised = calls.raised + 1) =>
              /\ pc' = "done"
              /\ outcome' = "failed" =>
                     /\ calls' = [calls EXCEPT !.exit = Append(@, 1), !.raised = @ + 1]
                     /\ logs' = Append(logs, Msg("error", Last(logs').text, 0, 0, <<>>))
                     /\ Last(logs').text \in Errors \ Nullish
              /\ outcome' # "failed" =>
                     /\ calls' = [calls EXCEPT !.raised = @ + 1]
                     /\ logs' = logs
              /\ pc \in {"run", "expand"} =>
                     calls'.stat = <<>> /\ calls'.prompt = <<>> /\ calls'.unlink = <<>>
              /\ pc \in {"stat", "askShow", "askRemove"} => calls'.unlink = <<>>
              /\ pc = "unlink" => NoSucceeded(logs')
       /\ (inv' = inv /\ calls.raised > 0) =>
              UNCHANGED <<calls, logs, pc, outcome, locals>>]_vars

C26_Witness ==
    /\ calls.raised = 1
    /\ Len(calls.stat) = 2
    /\ Cardinality(locals.statPending) = 1
    /\ calls.prompt = <<>>
    /\ calls.unlink = <<>>
    /\ calls.exit = <<1>>

\* A lost report: the action invoked repeatedly, removal confirmed or declined, TEST_END
\* handled at any time with any context.
NextLost ==
    \/ Activate("master")
    \/ CliEvent
    \/ ActionBegin
    \/ RunResolve
    \/ \E found \in FoundTwice : ExpandResolve(found)
    \/ StatCalls
    \/ \E i \in DOMAIN locals.unused : StatResolve(i)
    \/ ShowAnswer(FALSE)
    \/ \E remove \in BOOLEAN : RemoveAnswer(remove)
    \/ UnlinkCalls
    \/ \E i \in DOMAIN locals.unused : UnlinkResolve(i)
    \/ \E t \in TestIds, context \in Contexts : TestEnd(t, context)

SpecLost == InitTwice /\ [][NextLost]_vars

\* the concatenation of what the earlier invocations were delivered
RECURSIVE FlattenAll(_)
FlattenAll(runs) ==
    IF runs = <<>> THEN <<>> ELSE Flatten(Head(runs)) \o FlattenAll(Tail(runs))

\* the paths a TEST_END handled by the master has reported: at any time so far in
\* this process, and no later than the resolution of this invocation's hermione.run()
EverReported == Elems(FlattenAll(history.all)) \cup Elems(Flatten(delivered))
ReportedBeforeRun ==
    Elems(FlattenAll(history.all)) \cup Elems(Flatten(SubSeq(delivered, 1, history.atRun)))

\* the step that computes the difference from a non-empty found list
DiffStep == pc = "expand" /\ locals'.expanded /\ ~IsEmpty(locals'.readRefPaths)

\* the step in which pMap's mapper calls fs.unlink
UnlinkStep == pc = "mapUnlink" /\ pc' = "unlink"

\* C27 as stated: when the difference is computed, a found path that no TEST_END
\* delivered to the master before hermione.run() resolved has reported is placed in
\* the unused list, whatever the number of reports received; and when "remove" is
\* answered with yes, fs.unlink is called for every path of the unused list.
C27_Original ==
    [][/\ DiffStep =>
              \A p \in Elems(locals'.readRefPaths.list) :
                  p \notin ReportedBeforeRun => p \in Elems(locals'.unused)
       /\ UnlinkStep => Elems(calls'.unlink) = Elems(locals.unused)]_vars

\* C27 amended: when the difference is computed, a found path that no TEST_END
\* delivered to the master so far (before or after hermione.run() resolved, in this
\* or an earlier invocation of the process) has reported is placed in the unused
\* list, whatever the number of reports received; and when "remove" is answered with
\* yes, fs.unlink is called for every path of the unused list.
C27_UnreportedPathIsUnusedAndUnlinked ==
    [][/\ DiffStep =>
              \A p \in Elems(locals'.readRefPaths.list) :
                  p \notin EverReported => p \in Elems(locals'.unused)
       /\ UnlinkStep => Elems(calls'.unlink) = Elems(locals.unused)]_vars

\* a second invocation, to which a report for another path was delivered, has
\* unlinked a found path that no report ever named
C27_Witness ==
    /\ inv = 2
    /\ outcome = "succeeded"
    /\ locals.readRefPaths = Defined(<<Old, Plain>>)
    /\ delivered # <<>>
    /\ Plain \in Elems(Flatten(delivered))
    /\ Old \notin EverReported
    /\ calls.unlink = <<Old>>

\* the lists of the "list" reports of this invocation
Listed == {logs[i].list : i \in {j \in DOMAIN logs : logs[j].text = "list"}}

\* C28: once the difference is computed, no step of the invocation, and no TEST_END
\* or AFTER_TESTS_READ event handled in it, changes the unused list, the pattern
\* list or the expandPaths call made with it; the paths fs.unlink is called for are
\* the unused list itself, which is the list handed to fs.stat, counted in the
\* report and shown on request.
C28_UnusedFrozenAfterDiff ==
    [][/\ (inv' = inv /\ locals.expanded) =>
              /\ locals'.unused = locals.unused
              /\ locals'.screenPatterns = locals.screenPatterns
              /\ locals'.readRefPaths = locals.readRefPaths
              /\ calls'.glob = calls.glob
              /\ calls'.stat \in {calls.stat, locals.unused}
              /\ calls.stat # <<>> => calls'.stat = calls.stat
       /\ calls'.unlink # <<>> => calls'.unlink = locals'.unused /\ calls'.stat = locals'.unused
       /\ \A i \in DOMAIN logs' :
              logs'[i].text = "found unused" => logs'[i].count = Len(locals'.unused)
       /\ Listed' \subseteq {locals'.unused}]_vars

C28_Witness ==
    /\ outcome = "succeeded"
    /\ locals.show = "true"
    /\ reads = 1 /\ readsInRun = 0
    /\ uniq(arrays[inv]) # locals.screenPatterns
    /\ optsM.usedRefPaths # locals.diffUsed
    /\ Plain \in UsedSet(optsM.usedRefPaths)
    /\ calls.unlink = <<Old, Plain>>
    /\ Listed = {<<Old, Plain>>}
====
